---- MODULE Spec2Model ----
(***************************************************************************)
(* A model of app.py: the POST /api/summarize handler                      *)
(* (summarize_transcript), the Gemini caller (call_ai_service) and the     *)
(* reply parser (parse_llm_response).                                      *)
(*                                                                         *)
(* Python strings are sequences of one-character strings, so that strip,   *)
(* split, lower, len, startswith and the regular-expression searches are   *)
(* computed on characters as the code computes them.                       *)
(***************************************************************************)
EXTENDS Integers, Sequences, FiniteSets, TLC

VARIABLES
    request,             \* flask.request: is_json, get_json(), form, files
    GOOGLE_API_KEY,      \* truthiness of os.getenv("GOOGLE_API_KEY")
    has_GenerativeModel, \* hasattr(genai, 'GenerativeModel')
    corpus,              \* which replies the generation endpoint may give
    pc,                  \* position in summarize_transcript / call_ai_service
    transcript_text,     \* the handler's local transcript_text
    ai_arg,              \* the argument call_ai_service was called with
    gen_calls,           \* number of model.generate_content invocations
    failure,             \* the failure met inside call_ai_service, if any
    draft,               \* what the endpoint's reply was built from
    response_text,       \* response.text handed to parse_llm_response
    ai_results,          \* the value call_ai_service returns
    response             \* the HTTP response: status and body

vars == <<request, GOOGLE_API_KEY, has_GenerativeModel, corpus, pc,
          transcript_text, ai_arg, gen_calls, failure, draft, response_text,
          ai_results, response>>

(***************************************************************************)
(* Bounds of the model.                                                    *)
(***************************************************************************)
MaxChunks == 5     \* chunks in a free-form reply
MaxItems == 2      \* bullet lines in a list section of a well-formed reply
MaxLines == 6      \* lines in a reply without markers

(***************************************************************************)
(* Python str operations.                                                  *)
(***************************************************************************)
Min(S) == CHOOSE x \in S : \A y \in S : x <= y
Max(S) == CHOOSE x \in S : \A y \in S : x >= y

Whitespace == {" ", "\n", "\t", "\r"}

ToLower ==
    ("A" :> "a") @@ ("B" :> "b") @@ ("C" :> "c") @@ ("D" :> "d") @@
    ("E" :> "e") @@ ("F" :> "f") @@ ("G" :> "g") @@ ("H" :> "h") @@
    ("I" :> "i") @@ ("J" :> "j") @@ ("K" :> "k") @@ ("L" :> "l") @@
    ("M" :> "m") @@ ("N" :> "n") @@ ("O" :> "o") @@ ("P" :> "p") @@
    ("Q" :> "q") @@ ("R" :> "r") @@ ("S" :> "s") @@ ("T" :> "t") @@
    ("U" :> "u") @@ ("V" :> "v") @@ ("W" :> "w") @@ ("X" :> "x") @@
    ("Y" :> "y") @@ ("Z" :> "z")

LowerChar(c) == IF c \in DOMAIN ToLower THEN ToLower[c] ELSE c

\* str.lower()
Lower(s) == [i \in 1..Len(s) |-> LowerChar(s[i])]

\* str.strip()
Strip(s) ==
    LET keep == {i \in 1..Len(s) : s[i] \notin Whitespace}
    IN  IF keep = {} THEN <<>> ELSE SubSeq(s, Min(keep), Max(keep))

\* str.startswith(prefix)
StartsWith(s, prefix) ==
    /\ Len(prefix) <= Len(s)
    /\ \A i \in 1..Len(prefix) : s[i] = prefix[i]

\* str.startswith(("*", "-"))
StartsWithBullet(s) == Len(s) > 0 /\ s[1] \in {"*", "-"}

\* str.split(sep) for a one-character separator
RECURSIVE Split(_, _)
Split(s, sep) ==
    LET at == {i \in 1..Len(s) : s[i] = sep}
    IN  IF at = {} THEN <<s>>
        ELSE <<SubSeq(s, 1, Min(at) - 1)>>
                 \o Split(SubSeq(s, Min(at) + 1, Len(s)), sep)

\* str.splitlines() on the line boundaries \n, \r and \r\n
RECURSIVE SplitLines(_)
SplitLines(s) ==
    LET at == {i \in 1..Len(s) : s[i] \in {"\n", "\r"}}
    IN  IF s = <<>> THEN <<>>
        ELSE IF at = {} THEN <<s>>
        ELSE LET i == Min(at)
                 skip == IF s[i] = "\r" /\ i < Len(s) /\ s[i + 1] = "\n"
                         THEN 2 ELSE 1
             IN  <<SubSeq(s, 1, i - 1)>>
                     \o SplitLines(SubSeq(s, i + skip, Len(s)))

\* sep.join(parts)
RECURSIVE Join(_, _)
Join(parts, sep) ==
    IF parts = <<>> THEN <<>>
    ELSE IF Len(parts) = 1 THEN parts[1]
    ELSE parts[1] \o sep \o Join(Tail(parts), sep)

\* parts[:n]
Take(parts, n) == SubSeq(parts, 1, IF Len(parts) < n THEN Len(parts) ELSE n)

(***************************************************************************)
(* The regular expressions of parse_llm_response, under re.IGNORECASE and  *)
(* re.DOTALL. A marker is given in lower case.                             *)
(***************************************************************************)
SummaryMarker == <<"s","u","m","m","a","r","y",":">>
DecisionsMarker == <<"k","e","y"," ","d","e","c","i","s","i","o","n","s",":">>
ActionsMarker == <<"a","c","t","i","o","n"," ","i","t","e","m","s",":">>
NoneWord == <<"n","o","n","e">>

\* the marker matches the text at index i, whatever the letter case
MatchAt(text, marker, i) ==
    /\ i >= 1
    /\ i + Len(marker) - 1 <= Len(text)
    /\ \A j \in 1..Len(marker) : LowerChar(text[i + j - 1]) = marker[j]

\* the indices where the marker occurs at or after index from
Occurrences(text, marker, from) ==
    {i \in from..(Len(text) - Len(marker) + 1) : MatchAt(text, marker, i)}

NoMatch == [found |-> FALSE, from |-> 0, to |-> 0]

\* a variant of the lazy search: the closing marker is matched greedily
RegexSearchGreedy(text, open, close) ==
    LET starts == {i \in Occurrences(text, open, 1) :
                       Occurrences(text, close, i + Len(open)) # {}}
    IN  IF starts = {} THEN NoMatch
        ELSE LET i == Min(starts)
                 k == Max(Occurrences(text, close, i + Len(open)))
             IN  [found |-> TRUE, from |-> i + Len(open), to |-> k - 1]

\* re.search(open + "(.*?)" + close, text): the leftmost start at which the
\* pattern matches, and from there the shortest group; group(1) is
\* text[from..to]
RegexSearchLazy(text, open, close) ==
    LET starts == {i \in Occurrences(text, open, 1) :
                       Occurrences(text, close, i + Len(open)) # {}}
    IN  IF starts = {} THEN NoMatch
        ELSE LET i == Min(starts)
                 k == Min(Occurrences(text, close, i + Len(open)))
             IN  [found |-> TRUE, from |-> i + Len(open), to |-> k - 1]

\* re.search(open + "(.*)", text): the leftmost occurrence, then all the rest
RegexSearchRest(text, open) ==
    LET starts == Occurrences(text, open, 1)
    IN  IF starts = {} THEN NoMatch
        ELSE [found |-> TRUE, from |-> Min(starts) + Len(open),
              to |-> Len(text)]

Group(text, m) == SubSeq(text, m.from, m.to)

summary_match(text) == RegexSearchLazy(text, SummaryMarker, DecisionsMarker)
decisions_match(text) == RegexSearchLazy(text, DecisionsMarker, ActionsMarker)
action_items_match(text) == RegexSearchRest(text, ActionsMarker)

(***************************************************************************)
(* parse_llm_response.                                                     *)
(***************************************************************************)
DefaultSummary == <<"C","o","u","l","d"," ","n","o","t"," ","p","a","r","s","e"," ","s","u","m","m","a","r","y",".">>
NoneProvided == <<"N","o","n","e"," ","p","r","o","v","i","d","e","d",".">>
ParseFailedNote == <<" ","(","N","o","t","e",":"," ","F","u","l","l"," ","s","t","r","u","c","t","u","r","e"," ","p","a","r","s","i","n","g"," ","f","a","i","l","e","d",")">>
NoneIdentified == <<"N","o","n","e"," ","i","d","e","n","t","i","f","i","e","d",".">>
ErrorParsingPrefix == <<"E","r","r","o","r"," ","p","a","r","s","i","n","g">>

FallbackLines == 5     \* response_text.splitlines()[:5]
FallbackMinLen == 20   \* len(first_few_lines) > 20

\* re.sub(r"^\s*[\*\-]\s*", "", d)
StripBullet(d) ==
    LET ink == {i \in 1..Len(d) : d[i] \notin Whitespace}
    IN  IF ink # {} /\ d[Min(ink)] \in {"*", "-"}
        THEN LET rest == {i \in ink : i > Min(ink)}
             IN  IF rest = {} THEN <<>> ELSE SubSeq(d, Min(rest), Len(d))
        ELSE d

NonEmpty(s) == s # <<>>
StripIsNonEmpty(s) == Strip(s) # <<>>
\* d.strip().startswith(("*", "-")) or d.strip()
KeepLine(d) == StartsWithBullet(Strip(d)) \/ Strip(d) # <<>>
\* [d.strip() for d in lines]
StripEach(lines) == [i \in 1..Len(lines) |-> Strip(lines[i])]
\* [re.sub(...).strip() for d in lines]
UnbulletEach(lines) == [i \in 1..Len(lines) |-> Strip(StripBullet(lines[i]))]

\* a variant of BulletLines: the lines come out in reverse order
BulletLinesReversed(block) ==
    LET kept == StripEach(SelectSeq(Split(block, "\n"), KeepLine))
        unbulleted == UnbulletEach(SelectSeq(kept, StripIsNonEmpty))
        items == SelectSeq(unbulleted, NonEmpty)
    IN  [i \in 1..Len(items) |-> items[Len(items) + 1 - i]]

\* the three list comprehensions applied to a section's text
BulletLines(block) ==
    LET kept == StripEach(SelectSeq(Split(block, "\n"), KeepLine))
        unbulleted == UnbulletEach(SelectSeq(kept, StripIsNonEmpty))
    IN  SelectSeq(unbulleted, NonEmpty)

\* a list section: its bullet lines, nothing when it reads "none", and the
\* whole text as one entry when it holds text but no line survived
ParseSection(block) ==
    LET isNone == Lower(block) = NoneWord
        items == IF isNone THEN <<>> ELSE BulletLines(block)
    IN  IF items = <<>> /\ ~isNone /\ block # <<>> THEN <<block>> ELSE items

ParseSummary(text) ==
    LET sm == summary_match(text)
        summary_text == Strip(Group(text, sm))
    IN  IF sm.found
        THEN IF Lower(summary_text) # NoneWord THEN summary_text
             ELSE NoneProvided
        ELSE DefaultSummary

\* a variant of FallbackSummary: an excerpt of exactly FallbackMinLen
\* characters already counts as a summary
FallbackSummaryAtLeast(text, summary) ==
    LET first_few_lines ==
            Join(Take(SplitLines(text), FallbackLines), <<"\n">>)
    IN  IF /\ ~summary_match(text).found
           /\ ~decisions_match(text).found
           /\ ~action_items_match(text).found
           /\ text # <<>>
           /\ Len(first_few_lines) >= FallbackMinLen
        THEN first_few_lines \o ParseFailedNote
        ELSE summary

\* the fallback when no pattern matched and the text is not empty
FallbackSummary(text, summary) ==
    LET first_few_lines ==
            Join(Take(SplitLines(text), FallbackLines), <<"\n">>)
    IN  IF /\ ~summary_match(text).found
           /\ ~decisions_match(text).found
           /\ ~action_items_match(text).found
           /\ text # <<>>
           /\ Len(first_few_lines) > FallbackMinLen
        THEN first_few_lines \o ParseFailedNote
        ELSE summary

\* the placeholder of an empty list in the returned dictionary
Placeholder(summary) ==
    IF ~StartsWith(summary, ErrorParsingPrefix) THEN NoneIdentified ELSE <<>>

OrPlaceholder(items, summary) ==
    IF items # <<>> THEN items ELSE <<Placeholder(summary)>>

parse_llm_response(text) ==
    LET dm == decisions_match(text)
        am == action_items_match(text)
        summary == FallbackSummary(text, ParseSummary(text))
        decisions == IF dm.found THEN ParseSection(Strip(Group(text, dm)))
                     ELSE <<>>
        action_items == IF am.found THEN ParseSection(Strip(Group(text, am)))
                        ELSE <<>>
    IN  [summary |-> summary,
         decisions |-> OrPlaceholder(decisions, summary),
         action_items |-> OrPlaceholder(action_items, summary)]

(***************************************************************************)
(* Python values held by the request and by transcript_text.               *)
(***************************************************************************)
PyNone == [t |-> "None"]
PyStr(s) == [t |-> "str", s |-> s]
PyInt(n) == [t |-> "int", n |-> n]
PyList(n) == [t |-> "list", items |-> n]
PyDict(keys, value) == [t |-> "dict", keys |-> keys, transcript_text |-> value]

\* bool(v), as `not v` reads it
Truthy(v) ==
    CASE v.t = "None" -> FALSE
      [] v.t = "str" -> v.s # <<>>
      [] v.t = "int" -> v.n # 0
      [] v.t = "list" -> v.items # 0
      [] v.t = "dict" -> v.keys # {}

\* data.get('transcript_text')
DictGet(data) ==
    IF "transcript_text" \in data.keys THEN data.transcript_text ELSE PyNone

(***************************************************************************)
(* The requests, as the handler reads them: request.is_json and the value  *)
(* of request.get_json() (a well-formed body), request.form and            *)
(* request.files. A request has one content type: is_json holds for a JSON *)
(* body only, and form fields and files are parsed from form-encoded and   *)
(* multipart bodies only, so a JSON request carries neither.               *)
(***************************************************************************)
NoJson == [t |-> "absent"]

JsonTexts == {PyNone, PyStr(<<>>), PyStr(<<" ">>), PyStr(<<"j">>),
              PyStr(<<" ", "j", " ">>), PyInt(0), PyInt(7)}

JsonBodies ==
    {PyNone, PyList(0), PyList(1), PyInt(7),
     PyDict({}, PyNone), PyDict({"title"}, PyNone)}
    \cup {PyDict({"transcript_text"}, v) : v \in JsonTexts}

NoField == [present |-> FALSE, value |-> <<>>]
FormTexts == {<<>>, <<" ">>, <<"f">>, <<" ", "f", " ">>}
FormFields == {NoField} \cup {[present |-> TRUE, value |-> v] : v \in FormTexts}

PdfName == <<"n","o","t","e","s",".","p","d","f">>
TxtName == <<"a",".","t","x","t">>
UpperTxtName == <<"A",".","T","X","T">>
BareName == <<"t","x","t">>
DoubleName == <<"a",".","t","x","t",".","p","d","f">>
Filenames == {<<>>, PdfName, TxtName, UpperTxtName, BareName, DoubleName}

DecodeError ==
    "'utf-8' codec can't decode byte 0xff in position 0: invalid start byte"

\* what file.read().decode('utf-8') gives: a text, or an exception
FileContents ==
    {[ok |-> TRUE, text |-> t, error |-> ""] : t \in {<<>>, <<"u">>, <<" ">>}}
    \cup {[ok |-> FALSE, text |-> <<>>, error |-> DecodeError]}

NoFile == [present |-> FALSE, filename |-> <<>>,
           content |-> [ok |-> TRUE, text |-> <<>>, error |-> ""]]
Uploads ==
    {NoFile} \cup {[present |-> TRUE, filename |-> f, content |-> c] :
                       f \in Filenames, c \in FileContents}

Requests ==
    {[is_json |-> TRUE, json |-> j, form |-> NoField, files |-> NoFile] :
         j \in JsonBodies}
    \cup {[is_json |-> FALSE, json |-> NoJson, form |-> f, files |-> u] :
              f \in FormFields, u \in Uploads}

\* a request that carries a transcript
TextRequest ==
    [is_json |-> TRUE, json |-> PyDict({"transcript_text"}, PyStr(<<"j">>)),
     form |-> NoField, files |-> NoFile]

(***************************************************************************)
(* allowed_file.                                                           *)
(***************************************************************************)
TxtExtension == <<"t","x","t">>
ALLOWED_EXTENSIONS == {TxtExtension}

\* a variant of allowed_file: the extension is taken after the first dot
\* (split('.')[1]) instead of after the last one
allowed_file_first_dot(filename) ==
    LET dots == {i \in 1..Len(filename) : filename[i] = "."}
        later == {i \in dots : i > Min(dots)}
        stop == IF later = {} THEN Len(filename) ELSE Min(later) - 1
    IN  /\ dots # {}
        /\ Lower(SubSeq(filename, Min(dots) + 1, stop))
               \in ALLOWED_EXTENSIONS

allowed_file(filename) ==
    LET dots == {i \in 1..Len(filename) : filename[i] = "."}
    IN  /\ dots # {}
        /\ Lower(SubSeq(filename, Max(dots) + 1, Len(filename)))
               \in ALLOWED_EXTENSIONS

(***************************************************************************)
(* The replies of the generation endpoint. A reply is rendered from a      *)
(* draft: the sections of a well-formed reply, the chunks of a free-form   *)
(* reply, or the lines of a reply without markers.                         *)
(***************************************************************************)
SummaryHeading == <<"S","u","m","m","a","r","y",":">>
DecisionsHeading == <<"K","e","y"," ","D","e","c","i","s","i","o","n","s",":">>
ActionsHeading == <<"A","c","t","i","o","n"," ","I","t","e","m","s",":">>
SummaryHeadingUpper == <<"S","U","M","M","A","R","Y",":">>
DecisionsHeadingUpper == <<"K","E","Y"," ","D","E","C","I","S","I","O","N","S",":">>
ActionsHeadingUpper == <<"A","C","T","I","O","N"," ","I","T","E","M","S",":">>

PlanSummary == <<"T","e","a","m"," ","a","g","r","e","e","d"," ","o","n"," ","p","l","a","n",".">>
NoneSummary == <<"N","O","N","E">>
TwoLineSummary == <<"S","c","o","p","e"," ","c","u","t",".","\n","B","u","d","g","e","t"," ","k","e","p","t",".">>
ShipItem == <<"S","h","i","p"," ","v","2">>
DelayItem == <<"D","e","l","a","y"," ","v","3">>
DashItem == <<"-","1"," ","b","u","d","g","e","t">>
DocsItem == <<"T","a","s","k",":"," ","w","r","i","t","e"," ","d","o","c","s",","," ","A","s","s","i","g","n","e","d"," ","t","o",":"," ","D","a","n","a",","," ","D","e","a","d","l","i","n","e",":"," ","F","r","i","d","a","y">>
NoneItem == <<"N","o","n","e">>

SummaryTexts == {PlanSummary, NoneSummary, TwoLineSummary}
DecisionTexts == {ShipItem, DelayItem, DashItem}
ActionTexts == {DocsItem, NoneItem}

SeqsUpTo(S, n) == UNION {[1..k -> S] : k \in 1..n}

WellFormedDrafts ==
    {[kind |-> "sections", summary |-> s, decisions |-> d, action_items |-> a,
      marker |-> m, style |-> y] :
         s \in SummaryTexts, d \in SeqsUpTo(DecisionTexts, MaxItems),
         a \in SeqsUpTo(ActionTexts, MaxItems), m \in {"*", "-"},
         y \in {"prompt", "compact"}}

\* the reply of the specification's round-trip scenario
RoundTripDraft ==
    [kind |-> "sections", summary |-> PlanSummary,
     decisions |-> <<ShipItem, DelayItem>>, action_items |-> <<DocsItem>>,
     marker |-> "*", style |-> "prompt"]

PromptBullet(marker, item) == <<marker, " ">> \o item
CompactBullet(marker, item) == <<" ", " ", marker>> \o item \o <<" ">>

\* the layout the prompt asks for, and a denser one in capitals
RenderSections(d) ==
    IF d.style = "prompt"
    THEN SummaryHeading \o <<"\n">> \o d.summary \o <<"\n", "\n">>
         \o DecisionsHeading \o <<"\n">>
         \o Join([i \in 1..Len(d.decisions) |->
                      PromptBullet(d.marker, d.decisions[i])], <<"\n">>)
         \o <<"\n", "\n">> \o ActionsHeading \o <<"\n">>
         \o Join([i \in 1..Len(d.action_items) |->
                      PromptBullet(d.marker, d.action_items[i])], <<"\n">>)
    ELSE SummaryHeadingUpper \o <<" ">> \o d.summary \o <<"\n">>
         \o DecisionsHeadingUpper \o <<"\n">>
         \o Join([i \in 1..Len(d.decisions) |->
                      CompactBullet(d.marker, d.decisions[i])], <<"\n", "\n">>)
         \o <<"\n">> \o ActionsHeadingUpper
         \o Join([i \in 1..Len(d.action_items) |->
                      CompactBullet(d.marker, d.action_items[i])], <<"\n">>)
         \o <<"\n">>

NoneChunk == <<"\n"," ","N","o","N","e","\n">>
ErrorChunk == <<"E","r","r","o","r"," ","p","a","r","s","i","n","g"," ","t","h","e"," ","l","o","g","s">>

ChunkNames == {"S", "K", "A", "N", "E"}
Chunk(name) ==
    CASE name = "S" -> SummaryHeading
      [] name = "K" -> DecisionsMarker
      [] name = "A" -> ActionsHeading
      [] name = "N" -> NoneChunk
      [] name = "E" -> ErrorChunk

FreeFormDrafts ==
    {[kind |-> "chunks", chunks |-> c] :
         c \in UNION {[1..k -> ChunkNames] : k \in 0..MaxChunks}}

RECURSIVE RenderChunks(_)
RenderChunks(c) ==
    IF c = <<>> THEN <<>> ELSE Chunk(Head(c)) \o RenderChunks(Tail(c))

AlphaLine == <<"a","l","p","h","a","1">>
BetaLine == <<"b","e","t","a","2","2">>
LineTexts == {<<>>, AlphaLine, BetaLine}

\* every line but the last ends with the line break; the last one ends
\* with it when the reply is terminated, and is not empty otherwise
LineDrafts ==
    {d \in [kind : {"lines"}, lines : SeqsUpTo(LineTexts, MaxLines),
            terminated : BOOLEAN, nl : {<<"\n">>, <<"\r", "\n">>}] :
         d.terminated \/ d.lines[Len(d.lines)] # <<>>}

RenderLines(d) ==
    Join(d.lines, d.nl) \o (IF d.terminated THEN d.nl ELSE <<>>)

Render(d) ==
    CASE d.kind = "sections" -> RenderSections(d)
      [] d.kind = "chunks" -> RenderChunks(d.chunks)
      [] d.kind = "lines" -> RenderLines(d)

BasicDrafts ==
    {RoundTripDraft,
     [kind |-> "chunks", chunks |-> <<"S", "E", "K", "N", "A">>],
     [kind |-> "lines", lines |-> <<AlphaLine, <<>>, BetaLine>>,
      terminated |-> TRUE, nl |-> <<"\n">>]}

NoDraft == [kind |-> "none"]

ApiError == "503 The service is currently unavailable."
NoTextError == "Invalid operation: response.text requires a valid Part."

\* what model.generate_content and response.text can do: raise, or give text
Outcomes(c) ==
    CASE c = "basic" ->
             {[kind |-> "raise", msg |-> ApiError, draft |-> NoDraft],
              [kind |-> "raise", msg |-> NoTextError, draft |-> NoDraft]}
             \cup {[kind |-> "text", msg |-> "", draft |-> d] :
                       d \in BasicDrafts}
      [] c = "sections" ->
             {[kind |-> "text", msg |-> "", draft |-> d] :
                  d \in WellFormedDrafts}
      [] c = "chunks" ->
             {[kind |-> "text", msg |-> "", draft |-> d] :
                  d \in FreeFormDrafts}
      [] c = "lines" ->
             {[kind |-> "text", msg |-> "", draft |-> d] : d \in LineDrafts}

(***************************************************************************)
(* HTTP responses: jsonify(...), status. An exception that escapes the     *)
(* view function is answered by the framework.                             *)
(***************************************************************************)
InvalidJsonError == "Invalid JSON payload. Expected 'transcript_text'."
InvalidFileTypeError ==
    "Invalid file type. Please upload a .txt file or provide text via 'transcript_text'."
NoContentError ==
    "No transcript content provided. Use 'transcript_text' in JSON/form or 'transcript_file' for file upload."
FileErrorPrefix == "Error processing file: "
AttributeErrorText == "object has no attribute 'get'"

NoResponse == [status |-> 0, body |-> [kind |-> "none"]]
ErrorResponse(status, parts) ==
    [status |-> status, body |-> [kind |-> "json", error |-> parts]]
ResultResponse(results) ==
    [status |-> 200, body |-> [kind |-> "json", result |-> results]]
\* the framework's answer to an exception that escapes the view function
FrameworkResponse(status) == [status |-> status, body |-> [kind |-> "html"]]

(***************************************************************************)
(* call_ai_service's results on failure.                                   *)
(***************************************************************************)
NotConfiguredSummary == <<"AI service is not configured.">>
CommunicationErrorPrefix == "Error communicating with AI service: "

NoFailure == [kind |-> "none", msg |-> ""]

NotConfiguredResult ==
    [summary |-> NotConfiguredSummary, decisions |-> <<>>,
     action_items |-> <<>>]

\* a variant of FailureResult: the parser's placeholder in the lists
FailureResultWithPlaceholder(msg) ==
    [summary |-> <<CommunicationErrorPrefix, msg>>,
     decisions |-> <<NoneIdentified>>, action_items |-> <<NoneIdentified>>]

\* the dictionary returned by the except clause
FailureResult(msg) ==
    [summary |-> <<CommunicationErrorPrefix, msg>>, decisions |-> <<>>,
     action_items |-> <<>>]

\* a variant of AfterGenerateFailure: the generation call is retried
RetryAfterGenerateFailure == "generate"

\* where call_ai_service goes once the except clause has built its result
AfterGenerateFailure == "respond"

NoResults == [summary |-> <<>>, decisions |-> <<>>, action_items |-> <<>>]
Unset == [t |-> "unset"]

(***************************************************************************)
(* summarize_transcript, step by step.                                     *)
(***************************************************************************)
Finish(resp) ==
    /\ response' = resp
    /\ pc' = "done"

\* Priority 1: the JSON payload. data.get on a value that is not a dict
\* raises AttributeError outside any try
ReadJson ==
    /\ pc = "json"
    /\ IF request.is_json
       THEN IF ~Truthy(request.json)
            THEN /\ Finish(ErrorResponse(400, <<InvalidJsonError>>))
                 /\ UNCHANGED transcript_text
            ELSE IF request.json.t # "dict"
            THEN Finish(FrameworkResponse(500)) /\ UNCHANGED transcript_text
            ELSE /\ transcript_text' = DictGet(request.json)
                 /\ pc' = "form"
                 /\ UNCHANGED response
       ELSE /\ pc' = "form"
            /\ UNCHANGED <<transcript_text, response>>
    /\ UNCHANGED <<request, GOOGLE_API_KEY, has_GenerativeModel, corpus,
                   ai_arg, gen_calls, failure, draft, response_text,
                   ai_results>>

\* a variant of FormValue: the field is taken without being stripped
FormValueUnstripped(req, text) ==
    IF ~Truthy(text) /\ req.form.present /\ req.form.value # <<>>
    THEN PyStr(req.form.value)
    ELSE text

\* transcript_text after the form field has been looked at
FormValue(req, text) ==
    IF ~Truthy(text) /\ req.form.present /\ Strip(req.form.value) # <<>>
    THEN PyStr(Strip(req.form.value))
    ELSE text

\* Priority 2: the form field
ReadForm ==
    /\ pc = "form"
    /\ transcript_text' = FormValue(request, transcript_text)
    /\ pc' = "file"
    /\ UNCHANGED <<request, GOOGLE_API_KEY, has_GenerativeModel, corpus,
                   ai_arg, gen_calls, failure, draft, response_text,
                   ai_results, response>>

\* bool(file): a FileStorage is true when it has a filename
FileTruthy(file) == file.filename # <<>>

\* Priority 3: the uploaded file
ReadFile ==
    /\ pc = "file"
    /\ LET file == request.files
       IN  IF ~Truthy(transcript_text) /\ file.present
           THEN IF file.filename = <<>>
                THEN /\ pc' = "check"
                     /\ UNCHANGED <<transcript_text, response>>
                ELSE IF FileTruthy(file) /\ allowed_file(file.filename)
                THEN IF file.content.ok
                     THEN /\ transcript_text' = PyStr(file.content.text)
                          /\ pc' = "check"
                          /\ UNCHANGED response
                     ELSE /\ Finish(ErrorResponse(500,
                                 <<FileErrorPrefix, file.content.error>>))
                          /\ UNCHANGED transcript_text
                ELSE IF FileTruthy(file)
                THEN /\ Finish(ErrorResponse(400, <<InvalidFileTypeError>>))
                     /\ UNCHANGED transcript_text
                ELSE /\ pc' = "check"
                     /\ UNCHANGED <<transcript_text, response>>
           ELSE /\ pc' = "check"
                /\ UNCHANGED <<transcript_text, response>>
    /\ UNCHANGED <<request, GOOGLE_API_KEY, has_GenerativeModel, corpus,
                   ai_arg, gen_calls, failure, draft, response_text,
                   ai_results>>

\* if not transcript_text: 400
CheckContent ==
    /\ pc = "check"
    /\ IF ~Truthy(transcript_text)
       THEN Finish(ErrorResponse(400, <<NoContentError>>))
       ELSE pc' = "call" /\ UNCHANGED response
    /\ UNCHANGED <<request, GOOGLE_API_KEY, has_GenerativeModel, corpus,
                   transcript_text, ai_arg, gen_calls, failure, draft,
                   response_text, ai_results>>

(***************************************************************************)
(* call_ai_service, step by step.                                          *)
(***************************************************************************)
\* the call, and the guard on the key and the client library
CallAiService ==
    /\ pc = "call"
    /\ ai_arg' = transcript_text
    /\ IF ~GOOGLE_API_KEY \/ ~has_GenerativeModel
       THEN /\ ai_results' = NotConfiguredResult
            /\ failure' = [kind |-> "unconfigured", msg |-> ""]
            /\ pc' = "respond"
       ELSE /\ pc' = "generate"
            /\ UNCHANGED <<ai_results, failure>>
    /\ UNCHANGED <<request, GOOGLE_API_KEY, has_GenerativeModel, corpus,
                   transcript_text, gen_calls, draft, response_text, response>>

\* model.generate_content(prompt, ...) and the read of response.text; an
\* exception of either goes to the except clause
GenerateContent ==
    /\ pc = "generate"
    /\ gen_calls' = gen_calls + 1
    /\ \E o \in Outcomes(corpus) :
           IF o.kind = "raise"
           THEN /\ ai_results' = FailureResult(o.msg)
                /\ failure' = [kind |-> "exception", msg |-> o.msg]
                /\ pc' = AfterGenerateFailure
                /\ UNCHANGED <<draft, response_text>>
           ELSE /\ draft' = o.draft
                /\ response_text' = Render(o.draft)
                /\ pc' = "parse"
                /\ UNCHANGED <<ai_results, failure>>
    /\ UNCHANGED <<request, GOOGLE_API_KEY, has_GenerativeModel, corpus,
                   transcript_text, ai_arg, response>>

\* parsed_results = parse_llm_response(response.text)
ParseReply ==
    /\ pc = "parse"
    /\ ai_results' = parse_llm_response(response_text)
    /\ pc' = "respond"
    /\ UNCHANGED <<request, GOOGLE_API_KEY, has_GenerativeModel, corpus,
                   transcript_text, ai_arg, gen_calls, failure, draft,
                   response_text, response>>

\* return jsonify(ai_results), 200. call_ai_service catches every Exception
\* itself, so the handler's own except clause (the generic 500) is not taken
Respond ==
    /\ pc = "respond"
    /\ Finish(ResultResponse(ai_results))
    /\ UNCHANGED <<request, GOOGLE_API_KEY, has_GenerativeModel, corpus,
                   transcript_text, ai_arg, gen_calls, failure, draft,
                   response_text, ai_results>>

Next ==
    \/ ReadJson
    \/ ReadForm
    \/ ReadFile
    \/ CheckContent
    \/ CallAiService
    \/ GenerateContent
    \/ ParseReply
    \/ Respond

\* the handler's locals at entry
InitHandler ==
    /\ pc = "json"
    /\ transcript_text = PyNone
    /\ ai_arg = Unset
    /\ gen_calls = 0
    /\ failure = NoFailure
    /\ draft = NoDraft
    /\ response_text = <<>>
    /\ ai_results = NoResults
    /\ response = NoResponse

\* any request, any configuration of the process
Init ==
    /\ request \in Requests
    /\ GOOGLE_API_KEY \in BOOLEAN
    /\ has_GenerativeModel \in BOOLEAN
    /\ corpus = "basic"
    /\ InitHandler

\* a request with a transcript, a configured process, one family of replies
InitCorpus(c) ==
    /\ request = TextRequest
    /\ GOOGLE_API_KEY = TRUE
    /\ has_GenerativeModel = TRUE
    /\ corpus = c
    /\ InitHandler

InitSections == InitCorpus("sections")
InitChunks == InitCorpus("chunks")
InitLines == InitCorpus("lines")

Spec == Init /\ [][Next]_vars
SpecSections == InitSections /\ [][Next]_vars
SpecChunks == InitChunks /\ [][Next]_vars
SpecLines == InitLines /\ [][Next]_vars

(***************************************************************************)
(* What the properties below read off a state.                             *)
(***************************************************************************)
Done == pc = "done"
Parsed == pc \in {"respond", "done"} /\ draft.kind # "none"

ErrorBody(msg) ==
    /\ response.body.kind = "json"
    /\ "error" \in DOMAIN response.body
    /\ response.body.error = <<msg>>

\* the sources of a request, read off the request alone; a JSON value is
\* taken as it is, a form value trimmed
JsonYields ==
    /\ request.is_json
    /\ request.json.t = "dict"
    /\ "transcript_text" \in request.json.keys
    /\ \/ /\ request.json.transcript_text.t = "str"
          /\ request.json.transcript_text.s
                 \in {<<" ">>, <<"j">>, <<" ", "j", " ">>}
       \/ /\ request.json.transcript_text.t = "int"
          /\ request.json.transcript_text.n = 7

TrimmedFormText == (<<"f">> :> <<"f">>) @@ (<<" ", "f", " ">> :> <<"f">>)
FormYields ==
    /\ request.form.present
    /\ request.form.value \in DOMAIN TrimmedFormText

TextFileNames == {TxtName, UpperTxtName}
DisallowedFileNames == {PdfName, DoubleName}
FileYields ==
    /\ request.files.present
    /\ request.files.filename \in TextFileNames
    /\ request.files.content.ok
    /\ request.files.content.text # <<>>

HasDisallowedUpload ==
    /\ request.files.present
    /\ request.files.filename \in DisallowedFileNames

InvalidFileTypeAnswer ==
    response.status = 400 /\ ErrorBody(InvalidFileTypeError)

\* C1 as stated: an upload with a disallowed extension is answered 400 with
\* the invalid-file-type error, whatever else the request carries.
C1_DisallowedUploadAlwaysRejected ==
    (Done /\ HasDisallowedUpload) => InvalidFileTypeAnswer

\* C1 as amended: an upload with a disallowed extension is answered 400 with
\* the invalid-file-type error whenever no JSON or form 'transcript_text'
\* yields non-empty text.
C1_DisallowedUploadRejectedWithoutText ==
    (Done /\ HasDisallowedUpload /\ ~JsonYields /\ ~FormYields)
        => InvalidFileTypeAnswer

C1_Witness ==
    /\ Done
    /\ HasDisallowedUpload
    /\ request.files.filename = PdfName
    /\ request.form.present
    /\ ~FormYields
    /\ InvalidFileTypeAnswer

\* C2: the transcript handed to call_ai_service is the one of the first
\* source, in the order JSON field, form field, decoded upload, that yields
\* non-empty text.
C2_SourcePriority ==
    ai_arg.t # "unset" =>
        IF JsonYields THEN ai_arg = request.json.transcript_text
        ELSE IF FormYields
        THEN ai_arg.t = "str" /\ ai_arg.s = TrimmedFormText[request.form.value]
        ELSE /\ FileYields
             /\ ai_arg.t = "str"
             /\ ai_arg.s = request.files.content.text

C2_Witness ==
    /\ Done
    /\ FormYields
    /\ FileYields
    /\ request.form.value = <<" ", "f", " ">>
    /\ ai_arg.t = "str"
    /\ ai_arg.s = <<"f">>
    /\ response.status = 200

NoSourceYields ==
    /\ ~JsonYields
    /\ ~FormYields
    /\ \/ ~request.files.present
       \/ request.files.filename = <<>>
       \/ request.files.content.ok /\ request.files.content.text = <<>>

\* C3: a request in which no source yields non-empty text is answered 400
\* with a JSON body that has an 'error' field.
C3_NoContentRejected ==
    (Done /\ NoSourceYields) =>
        /\ response.status = 400
        /\ response.body.kind = "json"
        /\ "error" \in DOMAIN response.body

ExceptionTexts == {DecodeError, ApiError, NoTextError, AttributeErrorText}
LeaksException ==
    /\ response.body.kind = "json"
    /\ "error" \in DOMAIN response.body
    /\ \E i \in 1..Len(response.body.error) :
           response.body.error[i] \in ExceptionTexts

\* C7: no response with status 500 carries the text of the exception.
C7_GenericServerError == response.status = 500 => ~LeaksException

\* C8: when the AI service fails inside call_ai_service, the handler still
\* answers 200 with a result whose summary is the error string holding the
\* error's message and whose decisions and action_items are empty.
C8_FailureResult ==
    (Done /\ failure.kind # "none") =>
        /\ response.status = 200
        /\ response.body.kind = "json"
        /\ "result" \in DOMAIN response.body
        /\ response.body.result.decisions = <<>>
        /\ response.body.result.action_items = <<>>
        /\ IF failure.kind = "unconfigured"
           THEN response.body.result.summary = NotConfiguredSummary
           ELSE response.body.result.summary
                    = <<CommunicationErrorPrefix, failure.msg>>

C8_Witness ==
    /\ Done
    /\ failure.kind = "exception"
    /\ failure.msg = ApiError
    /\ response.status = 200
    /\ response.body.result.decisions = <<>>

SomeSourceYields == JsonYields \/ FormYields \/ FileYields

\* C9 as stated: the generation endpoint is invoked at most once; once when
\* a transcript was accepted and the API key is configured, never otherwise.
C9_OneCallWhenKeyConfigured ==
    /\ gen_calls <= 1
    /\ Done => gen_calls = IF SomeSourceYields /\ GOOGLE_API_KEY
                           THEN 1 ELSE 0

\* C9 as amended: the generation endpoint is invoked at most once and never
\* again after a failure; once when a transcript was accepted, the API key
\* is configured and the client library has GenerativeModel, never otherwise.
C9_OneCallWhenConfigured ==
    /\ gen_calls <= 1
    /\ failure.kind # "none" => pc \in {"respond", "done"}
    /\ Done => gen_calls = IF /\ SomeSourceYields
                              /\ GOOGLE_API_KEY
                              /\ has_GenerativeModel
                           THEN 1 ELSE 0

C9_Witness ==
    /\ Done
    /\ gen_calls = 1
    /\ failure.kind = "exception"
    /\ response.status = 200

\* C4 as stated: a well-formed reply parses to the trimmed summary text and
\* to the bullet lines of each list section, in order, without their markers.
C4_WellFormedRoundTrip ==
    (Parsed /\ draft.kind = "sections") =>
        /\ ai_results.summary = draft.summary
        /\ ai_results.decisions = draft.decisions
        /\ ai_results.action_items = draft.action_items

\* C4 as amended: the same, except that a summary text which reads "none",
\* in any letter case, is returned as "None provided.".
C4_WellFormedRoundTripButNone ==
    (Parsed /\ draft.kind = "sections") =>
        /\ ai_results.summary = IF Lower(draft.summary) = NoneWord
                                THEN NoneProvided ELSE draft.summary
        /\ ai_results.decisions = draft.decisions
        /\ ai_results.action_items = draft.action_items

C4_Witness ==
    /\ Parsed
    /\ draft = RoundTripDraft
    /\ ai_results = [summary |-> PlanSummary,
                     decisions |-> <<ShipItem, DelayItem>>,
                     action_items |-> <<DocsItem>>]

\* the first 'Key Decisions:' of the reply is followed by "none", in some
\* letter case and surrounded by white space, and then by 'Action Items:'
NoneDecisionsBlock(c) ==
    \E i \in 1..(Len(c) - 2) :
        /\ c[i] = "K"
        /\ \A m \in 1..(i - 1) : c[m] # "K"
        /\ c[i + 1] = "N"
        /\ c[i + 2] = "A"

\* C5: when the text between 'Key Decisions:' and 'Action Items:' is "none",
\* the decisions are ["None identified."], whatever the other sections hold.
C5_NoneDecisions ==
    (Parsed /\ draft.kind = "chunks" /\ NoneDecisionsBlock(draft.chunks))
        => ai_results.decisions = <<NoneIdentified>>

\* C6: a reply without any marker gets as summary its first five lines
\* joined by newlines and followed by the note when that excerpt is longer
\* than 20 characters, and the default summary otherwise.
C6_FallbackSummary ==
    (Parsed /\ draft.kind = "lines") =>
        LET excerpt == Join(SubSeq(draft.lines, 1,
                                   IF Len(draft.lines) < 5
                                   THEN Len(draft.lines) ELSE 5), <<"\n">>)
        IN  ai_results.summary = IF Len(excerpt) > 20
                                 THEN excerpt \o ParseFailedNote
                                 ELSE DefaultSummary

C6_Witness ==
    /\ Parsed
    /\ draft.kind = "lines"
    /\ Len(draft.lines) > 5
    /\ draft.lines[Len(draft.lines)] # <<>>
    /\ draft.nl = <<"\r", "\n">>
    /\ ai_results.summary # DefaultSummary

FirstOccurrence(marker) ==
    LET at == Occurrences(response_text, marker, 1)
    IN  IF at = {} THEN 0 ELSE Min(at)

Region(m) == IF m.found THEN m.from..m.to ELSE {}

\* the regions end and start at the first occurrences of the headings in
\* the reply, and no two of them share a character
BoundByFirstOccurrences ==
    LET sm == summary_match(response_text)
        dm == decisions_match(response_text)
        am == action_items_match(response_text)
        k1 == FirstOccurrence(DecisionsMarker)
        a1 == FirstOccurrence(ActionsMarker)
    IN  /\ sm.found => sm.to = k1 - 1
        /\ dm.found => /\ dm.from = k1 + Len(DecisionsMarker)
                       /\ dm.to = a1 - 1
        /\ am.found => am.from = a1 + Len(ActionsMarker)
        /\ Region(sm) \cap Region(dm) = {}
        /\ Region(sm) \cap Region(am) = {}
        /\ Region(dm) \cap Region(am) = {}

\* no 'Key Decisions:' before the first 'Summary:', and no 'Action Items:'
\* before the first 'Key Decisions:'
HeadingsInOrder ==
    LET s1 == FirstOccurrence(SummaryMarker)
        k1 == FirstOccurrence(DecisionsMarker)
        a1 == FirstOccurrence(ActionsMarker)
    IN  /\ (s1 # 0 /\ k1 # 0) => s1 < k1
        /\ (k1 # 0 /\ a1 # 0) => k1 < a1

\* C10 as stated: for every reply the three regions are bound by the first
\* occurrences of the headings and never overlap.
C10_FirstOccurrencesAlways == Parsed => BoundByFirstOccurrences

\* C10 as amended: the same for every reply in which no 'Key Decisions:'
\* comes before the first 'Summary:' and no 'Action Items:' before the first
\* 'Key Decisions:', also when a heading is repeated later.
C10_FirstOccurrencesInOrder ==
    (Parsed /\ HeadingsInOrder) => BoundByFirstOccurrences

C10_Witness ==
    /\ Parsed
    /\ HeadingsInOrder
    /\ summary_match(response_text).found
    /\ decisions_match(response_text).found
    /\ Cardinality(Occurrences(response_text, DecisionsMarker, 1)) > 1
    /\ Cardinality(Occurrences(response_text, ActionsMarker, 1)) > 1

====
